---- MODULE Spec2Model ----
(***************************************************************************)
(* Model of pap2mealie.py: the import of a Paprika export archive into a   *)
(* Mealie instance.  One run of the command pap2mealie() is a state        *)
(* machine whose steps are the count pass over the archive, the            *)
(* construction of the Api client (authentication), the pulls of the       *)
(* paprika_recipes generator, and the three blocks of                      *)
(* Api.import_paprika_recipe (create, embedded image, image scrape).       *)
(* Remote answers and the archive content are the inputs.                  *)
(***************************************************************************)
EXTENDS Integers, Sequences, FiniteSets, TLC

\* Largest number of entries of the archives explored.
MaxEntries == 2

\* Largest length of the `created` and `ingredients` strings explored.
MaxLen == 3

\* ------------------------------------------------------------------------
\* Archive entries
\* ------------------------------------------------------------------------

\* The attributes convert_recipe reads from the SimpleNamespace.
RequiredFields ==
    {"prep_time", "ingredients", "notes", "description", "source_url",
     "cook_time", "total_time", "servings", "name", "rating", "created",
     "categories", "directions"}

\* Key sets of the records explored: a complete record and one lacking
\* `ingredients`.
KeySets == {RequiredFields, RequiredFields \ {"ingredients"}}

\* recipe['photo_data']: key absent, JSON null, a well-formed base64 string,
\* or a string whose padding is incorrect.
PhotoValues == {"ABSENT", "null", "b64", "badpad"}

\* recipe['image_url']: key absent, JSON null, or a string.
UrlValues == {"ABSENT", "null", "url"}

\* An entry whose gzip stream or JSON document cannot be decoded.
CorruptEntry ==
    [gz |-> "corrupt", keys |-> {}, photo_data |-> "ABSENT", image_url |-> "ABSENT"]

Entries ==
    {CorruptEntry} \cup
    [gz : {"ok"}, keys : KeySets, photo_data : PhotoValues, image_url : UrlValues]

Archives == UNION {[1..k -> Entries] : k \in 0..MaxEntries}

\* Outcomes of one HTTP request of the session: a 2xx response, a 4xx/5xx
\* response, or an exception of the transport (ConnectionError, Timeout).
HttpResults == {"ok", "nonok", "raise"}

\* Outcomes of the request to auth/token: a JSON body holding access_token,
\* a body without it, or an exception of the transport.
AuthResults == {"token", "no_token", "raise"}

VARIABLES
    archive,      \* the entries of the export file, in namelist() order
    pc,           \* position of the run
    num_recipes,  \* pap2mealie: num_recipes
    ok,           \* pap2mealie: ok
    idx,          \* number of names the paprika_recipes generator has taken
    token,        \* TRUE once self.s.auth holds a bearer token
    session,      \* the BaseUrlSession: "none", "open" or "closed"
    calls,        \* the requests issued so far, in order, with their outcome
    returned,     \* the values import_paprika_recipe has returned, in order
    err,          \* the exception that ended the run, or "none"
    report,       \* the lines echoed at the end, or "none"
    slug,         \* import_paprika_recipe: slug
    run,          \* 1 in the first run of the command, 2 in the second
    remote,       \* the recipes the destination holds, in order of creation
    closes,       \* number of calls of self.s.close()
    zips_opened,  \* number of ZipFile(file) handles acquired so far
    zips_open,    \* number of ZipFile handles not yet released
    src,          \* convert_recipe: the strings of the record being converted
    dst           \* convert_recipe: the fields derived from them

vars == <<archive, pc, num_recipes, ok, idx, token, session, calls, returned,
          err, report, slug, run, remote, closes, zips_opened, zips_open,
          src, dst>>

\* ------------------------------------------------------------------------
\* Pure parts
\* ------------------------------------------------------------------------

\* Variant of paprika_recipes_count that is off by one (as when an entry
\* that is not a recipe is counted).
paprika_recipes_count_OffByOne(file) == Len(file) + 1

\* len(f.namelist())
paprika_recipes_count(file) == Len(file)

\* GzipFile + json.load of one entry: the record, or an exception.
json_load(entry) == IF entry.gz = "ok" THEN "record" ELSE "DecodeError"

\* convert_recipe: attribute access on the namespace built from the record
\* raises AttributeError for the first attribute that is missing.
convert_recipe(paprika) ==
    IF RequiredFields \subseteq paprika.keys THEN "converted" ELSE "AttributeError"

\* ------------------------------------------------------------------------
\* Strings (sequences of characters) and the str methods convert_recipe uses
\* ------------------------------------------------------------------------

Strings(alphabet) == UNION {[1..n -> alphabet] : n \in 0..MaxLen}

Min(a, b) == IF a < b THEN a ELSE b
Max(a, b) == IF a > b THEN a ELSE b

\* Variant of find that reports the position counting from 1.
find_OneBased(s, c) ==
    IF \E k \in 1..Len(s) : s[k] = c
    THEN CHOOSE k \in 1..Len(s) : s[k] = c /\ \A j \in 1..(k - 1) : s[j] # c
    ELSE -1

\* s.find(c): the lowest 0-based index of c in s, or -1.
find(s, c) ==
    IF \E k \in 1..Len(s) : s[k] = c
    THEN (CHOOSE k \in 1..Len(s) : s[k] = c /\ \A j \in 1..(k - 1) : s[j] # c) - 1
    ELSE -1

\* s[:n]: a negative n counts from the end; the bound is clamped.
slice_to(s, n) ==
    SubSeq(s, 1, IF n < 0 THEN Max(Len(s) + n, 0) ELSE Min(n, Len(s)))

\* s[n:] for n >= 0.
slice_from(s, n) == SubSeq(s, Min(n, Len(s)) + 1, Len(s))

RECURSIVE split_SkipEmpty(_, _)
\* Variant of split that drops empty segments, as s.split() without a
\* separator does.
split_SkipEmpty(s, sep) ==
    IF find(s, sep) = -1
    THEN IF s = <<>> THEN <<>> ELSE <<s>>
    ELSE (IF find(s, sep) = 0 THEN <<>> ELSE <<slice_to(s, find(s, sep))>>)
         \o split_SkipEmpty(slice_from(s, find(s, sep) + 1), sep)

RECURSIVE split(_, _)
\* s.split(sep) for a one-character separator: the segments between the
\* occurrences of sep, empty segments included.
split(s, sep) ==
    IF find(s, sep) = -1
    THEN <<s>>
    ELSE <<slice_to(s, find(s, sep))>> \o split(slice_from(s, find(s, sep) + 1), sep)

\* 'dateAdded': p.created[:p.created.find(' ')]
dateAdded(created) == slice_to(created, find(created, " "))

\* 'recipeIngredient': p.ingredients.split('\n')
recipeIngredient(ingredients) == split(ingredients, "\n")

\* The strings of a record that convert_recipe slices and splits.
Sources == [created : Strings({" ", "1"}), ingredients : Strings({"\n", "a"})]

NoSource == [created |-> <<>>, ingredients |-> <<>>]

NotConverted == [status |-> "pending", dateAdded |-> <<>>, recipeIngredient |-> <<>>]

\* The part of convert_recipe's result that is computed from strings; the
\* expression raises for no str value of the two fields.
convert_recipe_fields(p) ==
    [status |-> "converted",
     dateAdded |-> dateAdded(p.created),
     recipeIngredient |-> recipeIngredient(p.ingredients)]

\* recipe[key]
getitem(value) == IF value = "ABSENT" THEN "KeyError" ELSE value

\* Variant of b64decode that rejects str arguments, as a decoder that only
\* accepts bytes-like objects would.
b64decode_BytesOnly(s) ==
    CASE s = "b64"    -> "TypeError"
      [] s = "null"   -> "TypeError"
      [] s = "badpad" -> "TypeError"

\* b64decode(s): bytes for a well-formed string, TypeError for None,
\* binascii.Error (a ValueError) for incorrect padding.
b64decode(s) ==
    CASE s = "b64"    -> "bytes"
      [] s = "null"   -> "TypeError"
      [] s = "badpad" -> "binascii.Error"

\* suppress(TypeError): the exceptions the with block swallows.
suppressed(exc) == exc = "TypeError"

\* Variant of res_ok that takes any response for a success.
res_ok_AnyResponse(res) == TRUE

\* `if(res.ok)` of import_paprika_recipe.
res_ok(res) == res = "ok"

\* Variant of image_call_raises in which a 4xx/5xx response raises as well
\* (as with res.raise_for_status()).
image_call_raises_OnStatus(res) == res # "ok"

\* put_image and post_image return the response whatever its status; only
\* an exception of the transport leaves them abnormally.
image_call_raises(res) == res = "raise"

\* Variant of auth_fails that tolerates a body without access_token (as with
\* res.json().get('access_token')).
auth_fails_TransportOnly(res) == res = "raise"

\* res.json()['access_token'] fails for a body without the key, and the
\* post itself fails on a transport exception.
auth_fails(res) == res # "token"

\* The entry the generator yielded last.
recipe == archive[idx]

\* A request as logged: its kind, the record it is issued for, its outcome
\* and its text: the response body of recipes/create, the slug in the URL
\* of the two image requests.
Request(op, i, res, text) == [op |-> op, i |-> i, res |-> res, text |-> text]

Call(op, i, res) == Request(op, i, res, <<>>)

\* Bodies the destination answers an accepted recipes/create with: a quoted
\* slug.
ResponseTexts == {<<"\"", "a", "\"">>, <<"\"", "b", "\"">>}

\* Variant of res_text_slug that strips the leading character only.
res_text_slug_KeepLast(text) == slice_from(text, 1)

\* slug = res.text[1:-1]
res_text_slug(text) == slice_from(slice_to(text, -1), 1)

\* Variant of post_recipe that looks the record up at the destination and
\* sends nothing when it is already there.
post_recipe_SkipExisting(i, res, text) ==
    IF \E k \in DOMAIN remote : remote[k].rec = i
    THEN UNCHANGED <<calls, remote>>
    ELSE /\ calls' = Append(calls, Request("create", i, res, text))
         /\ remote' = IF res = "ok"
                       THEN Append(remote, [rec |-> i, run |-> run])
                       ELSE remote

\* Variant of post_recipe that sends the request a second time after a
\* 4xx/5xx response.
post_recipe_Retry(i, res, text) ==
    /\ calls' = IF res = "nonok"
                THEN calls \o <<Request("create", i, res, text),
                                Request("create", i, res, text)>>
                ELSE Append(calls, Request("create", i, res, text))
    /\ remote' = IF res = "ok"
                  THEN Append(remote, [rec |-> i, run |-> run])
                  ELSE remote

\* Api.post_recipe: one POST to recipes/create, whatever the destination
\* already holds; an accepted request adds a recipe there.
post_recipe(i, res, text) ==
    /\ calls' = Append(calls, Request("create", i, res, text))
    /\ remote' = IF res = "ok"
                  THEN Append(remote, [rec |-> i, run |-> run])
                  ELSE remote

\* ------------------------------------------------------------------------
\* The run
\* ------------------------------------------------------------------------

Init ==
    /\ archive \in Archives
    /\ pc = "start"
    /\ num_recipes = 0
    /\ ok = 0
    /\ idx = 0
    /\ token = FALSE
    /\ session = "none"
    /\ calls = <<>>
    /\ returned = <<>>
    /\ err = "none"
    /\ report = "none"
    /\ slug = <<>>
    /\ run = 1
    /\ remote = <<>>
    /\ closes = 0
    /\ zips_opened = 0
    /\ zips_open = 0
    /\ src = NoSource
    /\ dst = NotConverted

\* Variant of Escape in which no __exit__ closes the session.
Escape_NoExit(exc) ==
    /\ pc' = "aborted"
    /\ err' = exc
    /\ session' = session
    /\ closes' = closes

\* An exception leaves the `with Api(...) as api` block: __exit__ closes the
\* session and the exception propagates out of pap2mealie.
Escape(exc) ==
    /\ pc' = "aborted"
    /\ err' = exc
    /\ session' = "closed"
    /\ closes' = closes + 1

\* ok = 0; num_recipes = paprika_recipes_count(file).  The count pass opens
\* its own ZipFile and leaves its with block before it returns.
Count ==
    /\ pc = "start"
    /\ num_recipes' = paprika_recipes_count(archive)
    /\ pc' = "auth"
    /\ zips_opened' = zips_opened + 1
    /\ UNCHANGED <<closes, zips_open, slug, run, remote, src, dst, archive, ok, idx, token, session, calls, returned, err, report>>

\* Api(f"{url}/api/", username, password): __post_init__ creates the session
\* and posts the credentials once.  A failure happens before __enter__, so
\* no __exit__ runs.
Auth ==
    /\ pc = "auth"
    /\ \E res \in AuthResults :
        /\ calls' = Append(calls, Call("auth", 0, res))
        /\ IF auth_fails(res)
           THEN /\ pc' = "aborted"
                /\ err' = IF res = "raise" THEN "ConnectionError" ELSE "KeyError"
                /\ token' = token
           ELSE /\ pc' = "loop"
                /\ err' = err
                /\ token' = (res = "token")
    /\ session' = "open"
    /\ UNCHANGED <<closes, zips_opened, zips_open, slug, run, remote, src, dst, archive, num_recipes, ok, idx, returned, report>>

\* `for recipe in recipes`: the generator takes the next name and decodes
\* the entry; a decode exception leaves the generator and the loop.  The
\* first pull enters the generator's `with ZipFile(file, 'r') as f`; an
\* exception raised inside the generator leaves that block.
NextRecipe ==
    /\ pc = "loop"
    /\ idx < Len(archive)
    /\ idx' = idx + 1
    /\ zips_opened' = IF idx = 0 THEN zips_opened + 1 ELSE zips_opened
    /\ IF json_load(archive[idx + 1]) = "record"
       THEN /\ pc' = "import"
            /\ zips_open' = 1
            /\ UNCHANGED <<err, session, closes>>
       ELSE /\ Escape(json_load(archive[idx + 1]))
            /\ zips_open' = 0
    /\ UNCHANGED <<slug, run, remote, src, dst, archive, num_recipes, ok, token, calls, returned, report>>

\* res = self.post_recipe(convert_recipe(recipe)); on res.ok the slug is
\* cut out of the body; if not res.ok the method returns False and the loop
\* goes on without counting.
PostRecipe ==
    /\ pc = "import"
    /\ IF convert_recipe(recipe) = "AttributeError"
       THEN /\ Escape("AttributeError")
            /\ UNCHANGED <<calls, returned, slug, remote>>
       ELSE \E res \in HttpResults, body \in ResponseTexts :
            LET text == IF res = "ok" THEN body ELSE <<>> IN
            /\ post_recipe(idx, res, text)
            /\ IF res = "raise"
               THEN /\ Escape("ConnectionError")
                    /\ UNCHANGED <<returned, slug>>
               ELSE IF res_ok(res)
               THEN /\ pc' = "put_image"
                    /\ slug' = res_text_slug(text)
                    /\ UNCHANGED <<err, session, closes, returned>>
               ELSE /\ pc' = "loop"
                    /\ returned' = Append(returned, FALSE)
                    /\ UNCHANGED <<err, session, closes, slug>>
    /\ UNCHANGED <<zips_opened, zips_open, run, src, dst, archive, num_recipes, ok, idx, token, report>>

\* with(suppress(TypeError)):
\*     image = BytesIO(b64decode(recipe['photo_data']))
\*     self.put_image(slug, image, 'jpg')
PutImage ==
    /\ pc = "put_image"
    /\ LET photo == getitem(recipe.photo_data) IN
       IF photo = "KeyError"
       THEN /\ Escape("KeyError")
            /\ UNCHANGED calls
       ELSE IF b64decode(photo) # "bytes"
       THEN /\ UNCHANGED calls
            /\ IF suppressed(b64decode(photo))
               THEN /\ pc' = "post_image"
                    /\ UNCHANGED <<err, session, closes>>
               ELSE Escape(b64decode(photo))
       ELSE \E res \in HttpResults :
            /\ calls' = Append(calls, Request("upload", idx, res, slug))
            /\ IF image_call_raises(res)
               THEN Escape("ConnectionError")
               ELSE /\ pc' = "post_image"
                    /\ UNCHANGED <<err, session, closes>>
    /\ UNCHANGED <<zips_opened, zips_open, slug, run, remote, src, dst, archive, num_recipes, ok, idx, token, returned, report>>

\* image_url = recipe['image_url']; self.post_image(slug, image_url);
\* return res.ok -- and, back in the loop, ok += 1.
PostImage ==
    /\ pc = "post_image"
    /\ IF getitem(recipe.image_url) = "KeyError"
       THEN /\ Escape("KeyError")
            /\ UNCHANGED <<calls, returned, ok>>
       ELSE \E res \in HttpResults :
            /\ calls' = Append(calls, Request("fetch", idx, res, slug))
            /\ IF image_call_raises(res)
               THEN /\ Escape("ConnectionError")
                    /\ UNCHANGED <<returned, ok>>
               ELSE /\ pc' = "loop"
                    /\ returned' = Append(returned, TRUE)
                    /\ ok' = ok + 1
                    /\ UNCHANGED <<err, session, closes>>
    /\ UNCHANGED <<zips_opened, zips_open, slug, run, remote, src, dst, archive, num_recipes, idx, token, report>>

\* The generator is exhausted (its with block is left; for an empty archive
\* this is also its first pull): both with blocks of pap2mealie are left,
\* the session is closed and the three lines are echoed.
Report ==
    /\ pc = "loop"
    /\ idx = Len(archive)
    /\ zips_opened' = IF idx = 0 THEN zips_opened + 1 ELSE zips_opened
    /\ zips_open' = 0
    /\ session' = "closed"
    /\ closes' = closes + 1
    /\ report' = [imported |-> ok, errors |-> num_recipes - ok]
    /\ pc' = "done"
    /\ UNCHANGED <<slug, run, remote, src, dst, archive, num_recipes, ok, idx, token, calls, returned, err>>

\* An exception raised in the loop body leaves the generator suspended at
\* its yield, inside `with ZipFile`; nothing in pap2mealie closes it, and
\* the handle is released only if and when the abandoned generator is
\* finalized by the garbage collector.
Finalize ==
    /\ pc = "aborted"
    /\ zips_open > 0
    /\ zips_open' = 0
    /\ UNCHANGED <<zips_opened, closes, slug, run, remote, src, dst, archive, pc, num_recipes, ok, idx,
                   token, session, calls, returned, err, report>>

Next ==
    \/ Count
    \/ Auth
    \/ NextRecipe
    \/ PostRecipe
    \/ PutImage
    \/ PostImage
    \/ Report
    \/ Finalize

Spec == Init /\ [][Next]_vars

\* ------------------------------------------------------------------------
\* The command run a second time on the same archive and destination
\* ------------------------------------------------------------------------

\* A new process: every variable of pap2mealie starts afresh; the archive
\* and what the destination holds stay.
Rerun ==
    /\ pc \in {"done", "aborted"}
    /\ run = 1
    /\ run' = 2
    /\ pc' = "start"
    /\ num_recipes' = 0
    /\ ok' = 0
    /\ idx' = 0
    /\ token' = FALSE
    /\ session' = "none"
    /\ calls' = <<>>
    /\ returned' = <<>>
    /\ err' = "none"
    /\ report' = "none"
    /\ slug' = <<>>
    /\ closes' = 0
    /\ zips_opened' = 0
    /\ zips_open' = 0
    /\ UNCHANGED <<archive, remote, src, dst>>

NextTwice ==
    \/ Next
    \/ Rerun

SpecTwice == Init /\ [][NextTwice]_vars

\* ------------------------------------------------------------------------
\* convert_recipe on its own: every pair of strings, converted once
\* ------------------------------------------------------------------------

InitConvert ==
    /\ archive = <<>>
    /\ pc = "start"
    /\ num_recipes = 0
    /\ ok = 0
    /\ idx = 0
    /\ token = FALSE
    /\ session = "none"
    /\ calls = <<>>
    /\ returned = <<>>
    /\ err = "none"
    /\ report = "none"
    /\ slug = <<>>
    /\ run = 1
    /\ remote = <<>>
    /\ closes = 0
    /\ zips_opened = 0
    /\ zips_open = 0
    /\ src \in Sources
    /\ dst = NotConverted

ConvertRecipe ==
    /\ dst.status = "pending"
    /\ dst' = convert_recipe_fields(src)
    /\ UNCHANGED <<src, archive, pc, num_recipes, ok, idx, token, session, calls,
                   returned, err, report, slug, run, remote, closes, zips_opened,
                   zips_open>>

NextConvert == ConvertRecipe

SpecConvert == InitConvert /\ [][NextConvert]_vars

\* ------------------------------------------------------------------------
\* Type correctness
\* ------------------------------------------------------------------------

TypeOK ==
    /\ archive \in Archives
    /\ pc \in {"start", "auth", "loop", "import", "put_image", "post_image",
               "done", "aborted"}
    /\ num_recipes \in 0..MaxEntries
    /\ ok \in 0..MaxEntries
    /\ idx \in 0..Len(archive)
    /\ token \in BOOLEAN
    /\ session \in {"none", "open", "closed"}
    /\ slug \in {<<>>, <<"a">>, <<"b">>}
    /\ run \in {1, 2}
    /\ \A k \in DOMAIN remote : remote[k].rec \in 1..Len(archive) /\ remote[k].run \in 1..run
    /\ closes \in 0..1
    /\ zips_opened \in 0..2
    /\ zips_open \in 0..1
    /\ returned \in UNION {[1..k -> BOOLEAN] : k \in 0..MaxEntries}
    /\ err \in {"none", "ConnectionError", "KeyError", "AttributeError",
                "DecodeError", "binascii.Error"}

\* ------------------------------------------------------------------------
\* Observations on the history of a run
\* ------------------------------------------------------------------------

\* The requests of kind op issued for record i (i = 0 for auth/token).
CallsOf(op, i) == {k \in DOMAIN calls : calls[k].op = op /\ calls[k].i = i}

NumCalls(op, i) == Cardinality(CallsOf(op, i))

\* Record i's request of kind op was issued and had outcome res.
Answered(op, i, res) == \E k \in CallsOf(op, i) : calls[k].res = res

\* Records handed to import_paprika_recipe so far.
Attempted == {i \in 1..idx : json_load(archive[i]) = "record"}

\* Calls of import_paprika_recipe that returned True / False.
Succeeded == {k \in DOMAIN returned : returned[k]}
Failed == {k \in DOMAIN returned : ~returned[k]}

\* No statement of record i is still to be executed.
Finished(i) == i < idx \/ (i = idx /\ pc \in {"loop", "done", "aborted"})

\* The run went on after record i instead of ending there with an exception.
WentOnAfter(i) == i < idx \/ (i = idx /\ pc # "aborted")

IsRecord(i) == json_load(archive[i]) = "record"

\* ------------------------------------------------------------------------
\* Claims
\* ------------------------------------------------------------------------

\* C1: between records and at the end of the run, succeeded + failed equals
\* the number of records attempted, whatever the per-record outcomes were;
\* the final report has Errors = attempted - Imported and Imported + Errors
\* = number of archive entries.
C1_CountsAddUp ==
    /\ pc \in {"loop", "done", "aborted"} =>
           Cardinality(Succeeded) + Cardinality(Failed) = Cardinality(Attempted)
    /\ ok = Cardinality(Succeeded)
    /\ pc = "done" =>
           /\ report.errors = Cardinality(Attempted) - report.imported
           /\ report.imported + report.errors = Len(archive)

\* C2: a record lacking a required field fails translation for that record
\* only: no createRecipe for it, it is counted as failed, the run goes on
\* and, for an archive holding only that record, reports Imported 0,
\* Errors 1.
C2_TranslationFailureIsPerRecord ==
    \A i \in 1..idx :
        (IsRecord(i) /\ convert_recipe(archive[i]) = "AttributeError"
                     /\ (i < idx \/ pc # "import")) =>
            /\ NumCalls("create", i) = 0
            /\ Len(returned) >= i /\ returned[i] = FALSE
            /\ WentOnAfter(i)
            /\ (pc = "done" /\ Len(archive) = 1) =>
                   report = [imported |-> 0, errors |-> 1]

\* C3: a record without photo_data and without image_url whose createRecipe
\* is ok causes no uploadImage and no requestImageFetch, is counted as
\* succeeded, and the run goes on.
C3_NoImageKeysStillSucceeds ==
    \A i \in 1..idx :
        (/\ archive[i].photo_data = "ABSENT"
         /\ archive[i].image_url = "ABSENT"
         /\ Answered("create", i, "ok")
         /\ Finished(i)) =>
            /\ NumCalls("upload", i) = 0
            /\ NumCalls("fetch", i) = 0
            /\ Len(returned) >= i /\ returned[i] = TRUE
            /\ WentOnAfter(i)

\* C4: a transport failure of createRecipe, uploadImage or
\* requestImageFetch ends that recipe's remaining steps only; the run is not
\* aborted by it.
C4_TransportFailureIsPerRecord ==
    \A k \in DOMAIN calls :
        (calls[k].op \in {"create", "upload", "fetch"} /\ calls[k].res = "raise") =>
            /\ WentOnAfter(calls[k].i)
            /\ err # "ConnectionError"

\* C5: photo_data that is not decodable base64 is swallowed: no uploadImage,
\* the image_url step still runs, the record stays succeeded and the run
\* goes on.
C5_UndecodablePhotoIsSwallowed ==
    \A i \in 1..idx :
        (/\ archive[i].photo_data = "badpad"
         /\ Answered("create", i, "ok")
         /\ (i < idx \/ pc # "put_image")) =>
            /\ NumCalls("upload", i) = 0
            /\ err # "binascii.Error"
            /\ (archive[i].image_url # "ABSENT" /\ Finished(i)) =>
                   /\ NumCalls("fetch", i) = 1
                   /\ ~Answered("fetch", i, "raise") =>
                          (Len(returned) >= i /\ returned[i] = TRUE /\ WentOnAfter(i))

\* C6: a non-ok answer to uploadImage or requestImageFetch changes neither
\* the record's outcome nor the control flow: after a non-ok upload the
\* run proceeds to the image_url step with the counts untouched, and after
\* a non-ok fetch request the record is counted as succeeded and the loop
\* goes on, exactly as for an ok answer.
C6_ImageResultsNeverCount ==
    [][ (Len(calls') = Len(calls) + 1 /\ calls'[Len(calls')].res \in {"ok", "nonok"}) =>
            /\ calls'[Len(calls')].op = "upload" =>
                   /\ pc' = "post_image"
                   /\ UNCHANGED <<ok, returned, err, idx, session>>
            /\ calls'[Len(calls')].op = "fetch" =>
                   /\ pc' = "loop"
                   /\ ok' = ok + 1
                   /\ returned' = Append(returned, TRUE)
                   /\ UNCHANGED <<err, idx, session>> ]_vars

\* C6 witness: a record whose upload and fetch request were both answered
\* non-ok was counted as succeeded and the next record was taken.
C6_Witness ==
    \E i \in 1..idx :
        /\ Answered("upload", i, "nonok")
        /\ Answered("fetch", i, "nonok")
        /\ i < idx
        /\ returned[i] = TRUE
        /\ ok >= 1

\* C7: when createRecipe is answered non-ok the record is counted as failed
\* (import_paprika_recipe returns False and ok is not incremented), no
\* image request is issued for it, and the loop goes on.
C7_CreateNonOkFailsRecord ==
    /\ ok = Cardinality(Succeeded)
    /\ \A i \in 1..idx :
           Answered("create", i, "nonok") =>
               /\ NumCalls("upload", i) = 0
               /\ NumCalls("fetch", i) = 0
               /\ Len(returned) >= i /\ returned[i] = FALSE
               /\ WentOnAfter(i)
               /\ i = idx => pc \in {"loop", "done"}
               /\ pc = "done" => report.errors >= 1

\* C7 witness: a record rejected by the remote was followed by the next
\* record's createRecipe.
C7_Witness ==
    \E i \in 1..idx :
        /\ Answered("create", i, "nonok")
        /\ i < idx
        /\ NumCalls("create", i + 1) = 1

\* Scenario A: one complete record with embedded photo and image_url, and a
\* remote that answers ok to everything.
ScenarioA ==
    /\ archive = <<[gz |-> "ok", keys |-> RequiredFields,
                    photo_data |-> "b64", image_url |-> "url"]>>
    /\ \A k \in DOMAIN calls : calls[k].res \in {"ok", "token"}

\* C8: in scenario A each of createRecipe, uploadImage and
\* requestImageFetch is called exactly once by the end of the run (and
\* never more than once before), no exception ends the run, and the report
\* is Imported 1, Errors 0.
C8_ScenarioA ==
    ScenarioA =>
        /\ NumCalls("create", 1) <= 1
        /\ NumCalls("upload", 1) <= 1
        /\ NumCalls("fetch", 1) <= 1
        /\ pc # "aborted"
        /\ pc = "loop" /\ idx = 1 =>
               /\ NumCalls("create", 1) = 1
               /\ NumCalls("upload", 1) = 1
               /\ NumCalls("fetch", 1) = 1
        /\ pc = "done" =>
               /\ NumCalls("create", 1) = 1
               /\ NumCalls("upload", 1) = 1
               /\ NumCalls("fetch", 1) = 1
               /\ report = [imported |-> 1, errors |-> 0]

\* C8 witness: scenario A has run to its report.
C8_Witness == ScenarioA /\ pc = "done" /\ Len(calls) = 4

\* C9: the credentials are exchanged once, at construction; no
\* createRecipe, uploadImage or requestImageFetch is issued unless the first
\* request was auth/token and yielded a token; a failed exchange ends the
\* run with no record taken, no further request and no report.
C9_AuthenticateOnceFirst ==
    /\ NumCalls("auth", 0) <= 1
    /\ pc \notin {"start", "auth"} => NumCalls("auth", 0) = 1 /\ calls[1].op = "auth"
    /\ \A k \in DOMAIN calls :
           calls[k].op # "auth" =>
               /\ token
               /\ k > 1
               /\ calls[1] = Call("auth", 0, "token")
    /\ (calls # <<>> /\ calls[1].res # "token") =>
           /\ pc = "aborted"
           /\ ~token
           /\ idx = 0
           /\ Len(calls) = 1
           /\ returned = <<>>
           /\ report = "none"

\* C9 witness: the token endpoint answered without a token and the run has
\* ended.
C9_Witness ==
    /\ calls = <<Call("auth", 0, "no_token")>>
    /\ pc = "aborted"
    /\ Len(archive) >= 1

\* C10: an entry that cannot be decompressed or parsed is skipped alone: the
\* failure does not end the run, and the entries after it are processed.
C10_DecodeFailureIsPerRecord ==
    /\ err # "DecodeError"
    /\ \A i \in 1..idx :
           ~IsRecord(i) =>
               /\ NumCalls("create", i) = 0
               /\ WentOnAfter(i)

\* C14: after an ok createRecipe, requestImageFetch is issued for the record
\* exactly when its image_url is a string: whether uploadImage succeeded,
\* was answered non-ok or did not run, and not when image_url is null or
\* absent.
C14_FetchIffImageUrl ==
    \A i \in 1..idx :
        (/\ Answered("create", i, "ok")
         /\ Finished(i)
         /\ ~Answered("upload", i, "raise")) =>
            (NumCalls("fetch", i) >= 1 <=> archive[i].image_url = "url")

\* The requests for recipes/create appear in the order of the entries.
CreatesInOrder ==
    \A j, k \in DOMAIN calls :
        (j < k /\ calls[j].op = "create" /\ calls[k].op = "create") =>
            calls[j].i < calls[k].i

\* C19: when the report is printed every entry of the archive was decoded
\* and handed to import_paprika_recipe once, in listing order, and the
\* number of entries iterated is the count of the count pass; a run ended
\* by an exception prints no report.
C19_ReportMeansAllEntries ==
    /\ pc = "done" =>
           /\ report = [imported |-> ok, errors |-> Len(archive) - ok]
           /\ idx = Len(archive)
           /\ idx = num_recipes
           /\ Len(returned) = Len(archive)
           /\ \A i \in 1..Len(archive) : IsRecord(i) /\ NumCalls("create", i) = 1
           /\ CreatesInOrder
    /\ pc # "done" => report = "none"

\* C19 witness: the report of an archive of at least two entries.
C19_Witness == pc = "done" /\ Len(archive) >= 2 /\ Len(returned) = Len(archive)

\* C17: the container handle is released by the time the run ends, on every
\* path, early termination by an exception in the middle of the iteration
\* included: no ZipFile handle is open once the run has ended.
C17_HandlesReleasedAtEnd ==
    pc \in {"done", "aborted"} => zips_open = 0

\* C20: once a token was obtained the session is closed exactly once, when
\* the run leaves the import loop with the report or with an exception,
\* and no request is issued on a closed session.
C20_SessionClosedOnce ==
    [][ /\ closes' \in {closes, closes + 1}
        /\ closes' <= 1
        /\ closes' = closes + 1 =>
               (token /\ session = "open" /\ session' = "closed"
                      /\ pc' \in {"done", "aborted"})
        /\ (token' /\ pc' \in {"done", "aborted"}) =>
               (closes' = 1 /\ session' = "closed")
        /\ (token' /\ pc' \notin {"done", "aborted"}) =>
               (closes' = 0 /\ session' = "open")
        /\ calls' # calls => (session # "closed" /\ closes = 0) ]_vars

\* C20 witness: an exception escaped a record's processing after an earlier
\* record was imported, and the session was closed once.
C20_Witness ==
    /\ token
    /\ pc = "aborted"
    /\ idx = 2
    /\ Len(calls) >= 3
    /\ closes = 1
    /\ session = "closed"

\* text without its first and its last character.
IsInner(inner, text) ==
    /\ Len(text) >= 2
    /\ Len(inner) = Len(text) - 2
    /\ \A n \in 1..Len(inner) : inner[n] = text[n + 1]

\* C15: processing is sequential and slug-ordered: every uploadImage and
\* requestImageFetch comes after an ok createRecipe of the same record and
\* carries the slug of that response (its body without the first and the
\* last character); within a record the order is create, upload, fetch;
\* and no request of a record follows a request of a later record.
C15_SequentialSlugOrdered ==
    /\ \A k \in DOMAIN calls :
           calls[k].op \in {"upload", "fetch"} =>
               \E j \in 1..(k - 1) :
                   /\ calls[j].op = "create"
                   /\ calls[j].i = calls[k].i
                   /\ calls[j].res = "ok"
                   /\ IsInner(calls[k].text, calls[j].text)
    /\ \A j, k \in DOMAIN calls :
           (j < k /\ calls[j].i = calls[k].i /\ calls[j].i > 0) =>
               \/ calls[j].op = "create" /\ calls[k].op \in {"upload", "fetch"}
               \/ calls[j].op = "upload" /\ calls[k].op = "fetch"
    /\ \A j, k \in DOMAIN calls : j < k => calls[j].i <= calls[k].i
    /\ \A i \in 1..idx :
           (NumCalls("upload", i) + NumCalls("fetch", i) > 0 /\ i < idx) =>
               Len(returned) >= i

\* C15 witness: two records were created with different slugs and the
\* second one got both image requests.
C15_Witness ==
    /\ idx = 2
    /\ \E j, k \in DOMAIN calls :
           /\ calls[j].op = "create" /\ calls[j].i = 1 /\ calls[j].res = "ok"
           /\ calls[k].op = "create" /\ calls[k].i = 2 /\ calls[k].res = "ok"
           /\ calls[j].text # calls[k].text
    /\ NumCalls("upload", 1) = 1
    /\ NumCalls("upload", 2) = 1
    /\ NumCalls("fetch", 2) = 1

\* C16: no request is retried: each record causes at most one createRecipe,
\* one uploadImage and one requestImageFetch, whatever the answers.
C16_NoRetry ==
    \A i \in 1..Len(archive) :
        \A op \in {"create", "upload", "fetch"} : NumCalls(op, i) <= 1

\* C16 witness: all three requests of a record failed in some way (non-ok
\* create of one record, non-ok upload and fetch of another) and the run
\* reached its report.
C16_Witness ==
    /\ pc = "done"
    /\ \E i \in 1..idx : Answered("create", i, "nonok")
    /\ \E i \in 1..idx : Answered("upload", i, "nonok") /\ Answered("fetch", i, "nonok")

\* Number of recipes the destination holds for record i.
Copies(i) == Cardinality({k \in DOMAIN remote : remote[k].rec = i})

CreatedInRun(i, r) == \E k \in DOMAIN remote : remote[k] = [rec |-> i, run |-> r]

\* C11: the import is not idempotent.  In a second run on the same archive
\* and destination createRecipe is issued again for every record that
\* reaches it, whether or not the destination already holds the recipe,
\* and each recipe created in the first run and accepted again is then
\* held twice; after a complete second run that is every record.
C11_RerunCreatesDuplicates ==
    run = 2 =>
        /\ \A i \in 1..idx :
               (i < idx \/ pc \notin {"import", "aborted"}) =>
                   NumCalls("create", i) = 1
        /\ \A i \in 1..idx :
               Answered("create", i, "ok") =>
                   Copies(i) = IF CreatedInRun(i, 1) THEN 2 ELSE 1
        /\ pc = "done" =>
               \A i \in 1..Len(archive) :
                   /\ NumCalls("create", i) = 1
                   /\ (CreatedInRun(i, 1) /\ Answered("create", i, "ok")) =>
                          Copies(i) = 2

\* C11 witness: after two complete runs on an archive of two records the
\* destination holds each recipe twice.
C11_Witness ==
    /\ run = 2
    /\ pc = "done"
    /\ Len(archive) = 2
    /\ \A i \in 1..2 : CreatedInRun(i, 1) /\ CreatedInRun(i, 2) /\ Copies(i) = 2

\* ------------------------------------------------------------------------
\* Claims about convert_recipe (SpecConvert)
\* ------------------------------------------------------------------------

HasSpace(s) == \E k \in 1..Len(s) : s[k] = " "

Newlines(s) == {k \in 1..Len(s) : s[k] = "\n"}

RECURSIVE Join(_, _)
\* The segments put together again with sep between them.
Join(segs, sep) ==
    IF Len(segs) = 1 THEN segs[1]
    ELSE segs[1] \o <<sep>> \o Join(Tail(segs), sep)

\* C12: when `created` contains a space, dateAdded is the part of `created`
\* strictly before its first space.
C12_DateAddedBeforeFirstSpace ==
    (dst.status = "converted" /\ HasSpace(src.created)) =>
        \E k \in 1..Len(src.created) :
            /\ src.created[k] = " "
            /\ \A j \in 1..(k - 1) : src.created[j] # " "
            /\ dst.dateAdded = [j \in 1..(k - 1) |-> src.created[j]]

\* C12 witness: a converted `created` with text before its first space and
\* more after it.
C12_Witness ==
    /\ dst.status = "converted"
    /\ src.created = <<"1", " ", "1">>
    /\ dst.dateAdded = <<"1">>

\* C13: recipeIngredient is the ordered sequence of the newline-separated
\* segments of `ingredients`: it has one element more than there are
\* newlines, no element contains a newline, joined by newlines the elements
\* give `ingredients` back, and the empty string gives one empty element.
C13_RecipeIngredientIsSplit ==
    dst.status = "converted" =>
        /\ Len(dst.recipeIngredient) = Cardinality(Newlines(src.ingredients)) + 1
        /\ \A k \in DOMAIN dst.recipeIngredient :
               Newlines(dst.recipeIngredient[k]) = {}
        /\ Join(dst.recipeIngredient, "\n") = src.ingredients
        /\ src.ingredients = <<>> => dst.recipeIngredient = << <<>> >>

\* C13 witness: the empty `ingredients` was converted to one empty element.
C13_Witness ==
    /\ dst.status = "converted"
    /\ src.ingredients = <<>>
    /\ Len(dst.recipeIngredient) = 1

\* C18: when `created` contains no space the conversion fails instead of
\* yielding a dateAdded.
C18_NoSpaceFailsExplicitly ==
    (dst.status # "pending" /\ ~HasSpace(src.created)) => dst.status = "raised"

====
